---- MODULE Spec2Model ----
(***************************************************************************)
(* fetchTransactions.py: export of one Hive account's reward claims,       *)
(* interest payments, conversions and market fills to a CSV file.          *)
(*                                                                         *)
(* The script is a straight line: connect, read the global properties,     *)
(* compute the VESTS -> HP rate, open the CSV, write the header, then one   *)
(* pass over account.history(), and a final print.  Every statement that   *)
(* reaches outside the process (node, feed, file system) can raise; an     *)
(* uncaught exception ends the script.                                     *)
(*                                                                         *)
(* Texts.  An amount string "1.500 HIVE" is the record of its integer part, *)
(* its fraction digits and its symbol; a CSV cell is either a text or a     *)
(* decimal numeral (integer part, fraction digits).  Amounts are held in    *)
(* thousandths; a product with the rate is the exact fraction n/d.          *)
(***************************************************************************)
EXTENDS Integers, Sequences, FiniteSets, TLC

\* Largest number of operations the feed delivers in one run.
MaxOps == 2

----------------------------------------------------------------------------
\* Strings handed to the script by the node.

AmountStr(i, f, sym) == [kind |-> "amount", int |-> i, frac |-> f, sym |-> sym]
\* A string that is not "<decimal> <symbol>".
Junk == [kind |-> "junk", int |-> 0, frac |-> <<>>, sym |-> ""]
\* The key is not in the operation's dict.
NoKey == [kind |-> "none", int |-> 0, frac |-> <<>>, sym |-> ""]

TimeStr(date, sep, time) == [date |-> date, sep |-> sep, time |-> time]

\* CSV cells.
Text(s) == [kind |-> "text", s |-> s, int |-> 0, frac |-> <<>>]
Numeral(i, f) == [kind |-> "numeral", s |-> "", int |-> i, frac |-> f]
Empty == Text("")

----------------------------------------------------------------------------
\* beem.amount.Amount and the formatting of its float value.

FracMillis(f) ==
    IF Len(f) = 0 THEN 0
    ELSE IF Len(f) = 1 THEN f[1] * 100
    ELSE IF Len(f) = 2 THEN f[1] * 100 + f[2] * 10
    ELSE f[1] * 100 + f[2] * 10 + f[3]

\* Amount(s): raises on a missing or malformed string; .amount in thousandths.
Amount(s) ==
    [ok |-> s.kind = "amount",
     amount |-> s.int * 1000 + FracMillis(s.frac),
     symbol |-> s.sym]

Digits3(r) == <<r \div 100, (r \div 10) % 10, r % 10>>

\* f"{x}" of a float x = m/1000: shortest decimal text, at least one
\* fraction digit ("1.0", "0.5", "2.25").
FloatStr(m) ==
    LET d == Digits3(m % 1000) IN
    Numeral(m \div 1000,
            IF d[3] # 0 THEN d
            ELSE IF d[2] # 0 THEN <<d[1], d[2]>>
            ELSE <<d[1]>>)

\* f"{x:.3f}" of x = (q.n/q.d)/1000: rounded to exactly three fraction digits.
Fixed3(q) ==
    LET m == (2 * q.n + q.d) \div (2 * q.d) IN
    Numeral(m \div 1000, Digits3(m % 1000))

----------------------------------------------------------------------------
\* datetime.strptime(s, "%Y-%m-%dT%H:%M:%S") and strftime("%Y-%m-%d %H:%M:%S").

strptime(s) == [ok |-> s.sep = "T", date |-> s.date, time |-> s.time]
strftime(t) == Text(t.date \o " " \o t.time)

----------------------------------------------------------------------------
VARIABLES
    pc,               \* the statement the script is at
    raised,           \* the statement whose exception ended the script, or "none"
    dyn_props,        \* hive.get_dynamic_global_properties()
    conversion_rate,  \* the module-level rate, a fraction n/d
    oldFile,          \* hive_transactions.csv as it was before the run
    file,             \* hive_transactions.csv: its rows (<<>>: no such file)
    handle,           \* the file object: "none", "open", "closed"
    feed,             \* the operations account.history() has yielded so far
    notified          \* number of "CSV file created." lines printed

vars == <<pc, raised, dyn_props, conversion_rate, oldFile, file, handle, feed, notified>>

Header ==
    <<Text("Time"), Text("Type"), Text("In"), Text("In-Currency"), Text("Out"),
      Text("Out-Currency"), Text("Fee"), Text("Fee-Currency"), Text("Market"),
      Text("Note")>>

\* conversion_rate before line 21 has run: the name is not bound.
Unbound == [n |-> 0, d |-> 0]
NoProps == [total_vesting_fund_hive |-> NoKey, total_vesting_shares |-> NoKey]

\* Responses of the node to get_dynamic_global_properties.
DynProps ==
    [total_vesting_fund_hive :
        {AmountStr(0, <<0, 0, 0>>, "HIVE"), AmountStr(1, <<0, 0, 0>>, "HIVE"), Junk},
     total_vesting_shares :
        {AmountStr(0, <<0, 0, 0>>, "VESTS"), AmountStr(2, <<0, 0, 0>>, "VESTS"), NoKey}]

\* A file left by an earlier run.
StaleRow ==
    <<Text("2022-01-01 00:00:00"), Text("Interest"), Numeral(9, <<0>>), Text("HBD"),
      Empty, Empty, Empty, Empty, Empty, Empty>>
OldFiles == {<<>>, <<Header, StaleRow>>}

Init ==
    /\ pc = "Hive"
    /\ raised = "none"
    /\ dyn_props = NoProps
    /\ conversion_rate = Unbound
    /\ oldFile \in OldFiles
    /\ file = oldFile
    /\ handle = "none"
    /\ feed = <<>>
    /\ notified = 0

\* An uncaught exception at statement `at`, outside the with block.
Die(at) ==
    /\ pc' = "fatal"
    /\ raised' = at

\* Line 15: hive = Hive(node=nodes).
Connect ==
    /\ pc = "Hive"
    /\ \/ pc' = "get_dynamic_global_properties" /\ raised' = raised
       \/ Die("Hive")
    /\ UNCHANGED <<dyn_props, conversion_rate, oldFile, file, handle, feed, notified>>

\* Line 18: dyn_props = hive.get_dynamic_global_properties().
GetProps ==
    /\ pc = "get_dynamic_global_properties"
    /\ \/ /\ \E p \in DynProps : dyn_props' = p
          /\ pc' = "conversion_rate"
          /\ raised' = raised
       \/ /\ Die("get_dynamic_global_properties")
          /\ dyn_props' = dyn_props
    /\ UNCHANGED <<conversion_rate, oldFile, file, handle, feed, notified>>

\* ComputeRate with the division guarded: a zero or malformed supply gives
\* rate 0 and the script goes on.
ComputeRateGuarded ==
    /\ pc = "conversion_rate"
    /\ conversion_rate' =
          (IF Amount(dyn_props.total_vesting_fund_hive).ok
                /\ Amount(dyn_props.total_vesting_shares).ok
                /\ Amount(dyn_props.total_vesting_shares).amount # 0
           THEN [n |-> Amount(dyn_props.total_vesting_fund_hive).amount,
                 d |-> Amount(dyn_props.total_vesting_shares).amount]
           ELSE [n |-> 0, d |-> 1])
    /\ pc' = "Account"
    /\ UNCHANGED <<raised, dyn_props, oldFile, file, handle, feed, notified>>

\* Lines 19-21: the two Amount(...) parses and the float division.
RateOf(props) ==
    LET fund == Amount(props.total_vesting_fund_hive)
        shares == Amount(props.total_vesting_shares)
    IN [ok |-> fund.ok /\ shares.ok /\ shares.amount # 0,
        rate |-> [n |-> fund.amount, d |-> shares.amount]]

ComputeRate ==
    /\ pc = "conversion_rate"
    /\ LET r == RateOf(dyn_props) IN
         IF r.ok
         THEN /\ conversion_rate' = r.rate
              /\ pc' = "Account"
              /\ raised' = raised
         ELSE /\ Die("conversion_rate")
              /\ conversion_rate' = conversion_rate
    /\ UNCHANGED <<dyn_props, oldFile, file, handle, feed, notified>>

\* Line 24: account = Account(account_name, blockchain_instance=hive).
MakeAccount ==
    /\ pc = "Account"
    /\ \/ pc' = "open" /\ raised' = raised
       \/ Die("Account")
    /\ UNCHANGED <<dyn_props, conversion_rate, oldFile, file, handle, feed, notified>>

\* OpenCsv with mode='a': the header goes after what the file already holds.
OpenCsvAppend ==
    /\ pc = "open"
    /\ \/ /\ file' = Append(file, Header)
          /\ handle' = "open"
          /\ pc' = "history"
          /\ raised' = raised
       \/ /\ Die("open")
          /\ UNCHANGED <<file, handle>>
    /\ UNCHANGED <<dyn_props, conversion_rate, oldFile, feed, notified>>

\* Lines 34-36: open(csv_file_path, mode='w') truncates or creates the file,
\* then the header row is written.  open() itself can raise.
OpenCsv ==
    /\ pc = "open"
    /\ \/ /\ file' = <<Header>>
          /\ handle' = "open"
          /\ pc' = "history"
          /\ raised' = raised
       \/ /\ Die("open")
          /\ UNCHANGED <<file, handle>>
    /\ UNCHANGED <<dyn_props, conversion_rate, oldFile, feed, notified>>

----------------------------------------------------------------------------
\* The operations account.history() can yield: dicts with a type, a timestamp
\* and the fields of their kind.

Operation(type, timestamp, f) ==
    [type |-> type, timestamp |-> timestamp,
     reward_hive |-> f[1], reward_hbd |-> f[2], reward_vests |-> f[3],
     interest |-> f[4], amount_in |-> f[5], amount_out |-> f[6],
     current_pays |-> f[7], open_pays |-> f[8]]

GoodTime == TimeStr("2023-05-01", "T", "12:00:00")
LateTime == TimeStr("2023-06-15", "T", "09:30:00")
\* Not in the "%Y-%m-%dT%H:%M:%S" format.
BadTime == TimeStr("2023-05-01", " ", "12:00:00")

ClaimRewardOps ==
    {Operation("claim_reward_balance", GoodTime,
               <<h, b, v, NoKey, NoKey, NoKey, NoKey, NoKey>>) :
        h \in {AmountStr(0, <<0, 0, 0>>, "HIVE"), AmountStr(1, <<5, 0, 0>>, "HIVE")},
        b \in {NoKey, AmountStr(2, <<5, 0, 0>>, "HBD")},
        v \in {AmountStr(0, <<0, 0, 0>>, "VESTS"), AmountStr(1, <<5, 0, 0>>, "VESTS"), Junk}}

InterestOps ==
    {Operation("interest", LateTime,
               <<NoKey, NoKey, NoKey, i, NoKey, NoKey, NoKey, NoKey>>) :
        i \in {NoKey, AmountStr(0, <<2, 5, 0>>, "HBD"), Junk}}

ConvertOps ==
    {Operation("fill_convert_request", GoodTime,
               <<NoKey, NoKey, NoKey, NoKey, i, o, NoKey, NoKey>>) :
        i \in {AmountStr(1, <<0, 0, 0>>, "HBD"), NoKey},
        o \in {AmountStr(2, <<5, 0, 0>>, "HIVE"), Junk}}

FillOrderOps ==
    {Operation("fill_order", GoodTime,
               <<NoKey, NoKey, NoKey, NoKey, NoKey, NoKey, c, o>>) :
        c \in {AmountStr(1, <<0, 0, 0>>, "HIVE"), Junk},
        o \in {AmountStr(0, <<5, 0, 0>>, "HBD"), NoKey}}

\* A kind the script does not handle.
OtherOps ==
    {Operation("transfer", t,
               <<NoKey, NoKey, NoKey, NoKey, NoKey, NoKey, NoKey, NoKey>>) :
        t \in {GoodTime, BadTime}}

BadTimeOps ==
    {Operation("claim_reward_balance", BadTime,
               <<AmountStr(1, <<5, 0, 0>>, "HIVE"), NoKey, NoKey, NoKey, NoKey, NoKey,
                 NoKey, NoKey>>),
     Operation("fill_order", BadTime,
               <<NoKey, NoKey, NoKey, NoKey, NoKey, NoKey,
                 AmountStr(1, <<0, 0, 0>>, "HIVE"), AmountStr(0, <<5, 0, 0>>, "HBD")>>)}

Operations ==
    ClaimRewardOps \cup InterestOps \cup ConvertOps \cup FillOrderOps
        \cup OtherOps \cup BadTimeOps

----------------------------------------------------------------------------
\* The loop body, lines 40-66.

\* operation.get(key, default)
get(field, default) == IF field.kind = "none" THEN default ELSE field

\* parse_amount without the conversion: VESTS returned as they are.
parse_amount_unconverted(amount_str, is_vests) ==
    [ok |-> Amount(amount_str).ok,
     value |-> [n |-> Amount(amount_str).amount, d |-> 1]]

\* Lines 27-31.  Reads the module-level conversion_rate.
parse_amount(amount_str, is_vests) ==
    LET amount == Amount(amount_str) IN
    [ok |-> amount.ok,
     value |-> IF is_vests
               THEN [n |-> amount.amount * conversion_rate.n, d |-> conversion_rate.d]
               ELSE [n |-> amount.amount, d |-> 1]]

\* One list handed to writer.writerow: the fee cells are always "".
Row(time, type, in, in_currency, out, out_currency, market, note) ==
    <<time, Text(type), in, Text(in_currency), out, Text(out_currency),
      Empty, Empty, Text(market), Text(note)>>

\* What a branch did: ok is FALSE when it raised, written are the rows it
\* handed to writer.writerow before that.
Outcome(ok, written) == [ok |-> ok, written |-> IF ok THEN written ELSE <<>>]

\* ClaimReward with >= 0 in place of > 0.
ClaimRewardGe(operation, time) ==
    LET hive_amount == parse_amount(get(operation.reward_hive, AmountStr(0, <<>>, "HIVE")), FALSE)
        hbd_amount == parse_amount(get(operation.reward_hbd, AmountStr(0, <<>>, "HBD")), FALSE)
        vests_amount == parse_amount(get(operation.reward_vests, AmountStr(0, <<>>, "VESTS")), TRUE)
    IN Outcome(hive_amount.ok /\ hbd_amount.ok /\ vests_amount.ok,
          (IF hive_amount.value.n >= 0
           THEN <<Row(time, "Income", FloatStr(hive_amount.value.n), "HIVE", Empty, "", "", "")>>
           ELSE <<>>)
          \o (IF hbd_amount.value.n >= 0
              THEN <<Row(time, "Income", FloatStr(hbd_amount.value.n), "HBD", Empty, "", "", "")>>
              ELSE <<>>)
          \o (IF vests_amount.value.n >= 0
              THEN <<Row(time, "Income", Fixed3(vests_amount.value), "HP", Empty, "", "", "")>>
              ELSE <<>>))

\* ClaimReward with each amount parsed right before its own writerow: the
\* rows written before a later parse raises stay in the file.
ClaimRewardInterleaved(operation, time) ==
    LET hive_amount == parse_amount(get(operation.reward_hive, AmountStr(0, <<>>, "HIVE")), FALSE)
        hbd_amount == parse_amount(get(operation.reward_hbd, AmountStr(0, <<>>, "HBD")), FALSE)
        vests_amount == parse_amount(get(operation.reward_vests, AmountStr(0, <<>>, "VESTS")), TRUE)
        hive_rows == IF hive_amount.ok /\ hive_amount.value.n > 0
                     THEN <<Row(time, "Income", FloatStr(hive_amount.value.n), "HIVE", Empty, "", "", "")>>
                     ELSE <<>>
        hbd_rows == IF hive_amount.ok /\ hbd_amount.ok /\ hbd_amount.value.n > 0
                    THEN <<Row(time, "Income", FloatStr(hbd_amount.value.n), "HBD", Empty, "", "", "")>>
                    ELSE <<>>
        vests_rows == IF hive_amount.ok /\ hbd_amount.ok /\ vests_amount.ok
                         /\ vests_amount.value.n > 0
                      THEN <<Row(time, "Income", Fixed3(vests_amount.value), "HP", Empty, "", "", "")>>
                      ELSE <<>>
    IN [ok |-> hive_amount.ok /\ hbd_amount.ok /\ vests_amount.ok,
        written |-> hive_rows \o hbd_rows \o vests_rows]

\* Lines 43-52.
ClaimReward(operation, time) ==
    LET hive_amount == parse_amount(get(operation.reward_hive, AmountStr(0, <<>>, "HIVE")), FALSE)
        hbd_amount == parse_amount(get(operation.reward_hbd, AmountStr(0, <<>>, "HBD")), FALSE)
        vests_amount == parse_amount(get(operation.reward_vests, AmountStr(0, <<>>, "VESTS")), TRUE)
    IN Outcome(hive_amount.ok /\ hbd_amount.ok /\ vests_amount.ok,
          (IF hive_amount.value.n > 0
           THEN <<Row(time, "Income", FloatStr(hive_amount.value.n), "HIVE", Empty, "", "", "")>>
           ELSE <<>>)
          \o (IF hbd_amount.value.n > 0
              THEN <<Row(time, "Income", FloatStr(hbd_amount.value.n), "HBD", Empty, "", "", "")>>
              ELSE <<>>)
          \o (IF vests_amount.value.n > 0
              THEN <<Row(time, "Income", Fixed3(vests_amount.value), "HP", Empty, "", "", "")>>
              ELSE <<>>))

\* Lines 55-56.
Interest(operation, time) ==
    LET interest_amount == parse_amount(get(operation.interest, AmountStr(0, <<>>, "HBD")), FALSE)
    IN Outcome(interest_amount.ok,
          <<Row(time, "Interest", FloatStr(interest_amount.value.n), "HBD", Empty, "", "", "")>>)

\* Lines 59-61.
FillConvertRequest(operation, time) ==
    LET amount_in == Amount(operation.amount_in)
        amount_out == Amount(operation.amount_out)
    IN Outcome(amount_in.ok /\ amount_out.ok,
          <<Row(time, "Transaction", FloatStr(amount_in.amount), amount_in.symbol,
                FloatStr(amount_out.amount), amount_out.symbol,
                "Hive Internal Market", "Conversion")>>)

\* FillOrder with the two sides swapped.
FillOrderSwapped(operation, time) ==
    LET current_pays == Amount(operation.current_pays)
        open_pays == Amount(operation.open_pays)
    IN Outcome(current_pays.ok /\ open_pays.ok,
          <<Row(time, "Trade", FloatStr(open_pays.amount), open_pays.symbol,
                FloatStr(current_pays.amount), current_pays.symbol,
                "Hive Internal Market", "Trade")>>)

\* Lines 64-66.
FillOrder(operation, time) ==
    LET current_pays == Amount(operation.current_pays)
        open_pays == Amount(operation.open_pays)
    IN Outcome(current_pays.ok /\ open_pays.ok,
          <<Row(time, "Trade", FloatStr(current_pays.amount), current_pays.symbol,
                FloatStr(open_pays.amount), open_pays.symbol,
                "Hive Internal Market", "Trade")>>)

\* Dispatch with the last elif written as else: every other kind is taken
\* for a fill_order.
DispatchElse(operation, time) ==
    IF operation.type = "claim_reward_balance" THEN ClaimReward(operation, time)
    ELSE IF operation.type = "interest" THEN Interest(operation, time)
    ELSE IF operation.type = "fill_convert_request" THEN FillConvertRequest(operation, time)
    ELSE FillOrder(operation, time)

\* Lines 42-66: the if/elif chain, which has no else.
Dispatch(operation, time) ==
    IF operation.type = "claim_reward_balance" THEN ClaimReward(operation, time)
    ELSE IF operation.type = "interest" THEN Interest(operation, time)
    ELSE IF operation.type = "fill_convert_request" THEN FillConvertRequest(operation, time)
    ELSE IF operation.type = "fill_order" THEN FillOrder(operation, time)
    ELSE Outcome(TRUE, <<>>)

\* Lines 40-66: the timestamp is parsed before the type is looked at.
LoopBody(operation) ==
    LET timestamp == strptime(operation.timestamp) IN
    IF timestamp.ok
    THEN Dispatch(operation, strftime(timestamp))
    ELSE Outcome(FALSE, <<>>)

\* writerows keeping the newest rows first, right under the header.
writerows_newest_first(f, rows) ==
    IF Len(f) = 0 THEN rows ELSE <<Head(f)>> \o rows \o Tail(f)

\* writer.writerow, once per row: each row goes after what the file holds.
writerows(f, rows) == f \o rows

\* Line 39: the for statement asks account.history() for the next operation.
\* The generator yields one, is exhausted (the with block ends and the file
\* is closed), or raises (the with block closes the file, the script dies).
FeedNext ==
    /\ pc = "history"
    /\ \/ /\ Len(feed) < MaxOps
          /\ \E operation \in Operations : feed' = Append(feed, operation)
          /\ pc' = "body"
          /\ UNCHANGED <<raised, handle>>
       \/ /\ pc' = "print"
          /\ handle' = "closed"
          /\ UNCHANGED <<raised, feed>>
       \/ /\ Die("history")
          /\ handle' = "closed"
          /\ feed' = feed
    /\ UNCHANGED <<dyn_props, conversion_rate, oldFile, file, notified>>

\* Body without the with block: an exception leaves the file object open.
BodyLeaksHandle ==
    /\ pc = "body"
    /\ LET r == LoopBody(feed[Len(feed)]) IN
         /\ file' = writerows(file, r.written)
         /\ IF r.ok
            THEN /\ pc' = "history"
                 /\ raised' = raised
            ELSE Die("body")
    /\ UNCHANGED <<dyn_props, conversion_rate, oldFile, handle, feed, notified>>

\* Body inside a try/finally that goes on to the print after an exception.
BodyPrintsAnyway ==
    /\ pc = "body"
    /\ LET r == LoopBody(feed[Len(feed)]) IN
         /\ file' = writerows(file, r.written)
         /\ IF r.ok
            THEN /\ pc' = "history"
                 /\ UNCHANGED <<raised, handle>>
            ELSE /\ pc' = "print"
                 /\ raised' = "body"
                 /\ handle' = "closed"
    /\ UNCHANGED <<dyn_props, conversion_rate, oldFile, feed, notified>>

\* Lines 40-66 for the operation just yielded.
Body ==
    /\ pc = "body"
    /\ LET r == LoopBody(feed[Len(feed)]) IN
         /\ file' = writerows(file, r.written)
         /\ IF r.ok
            THEN /\ pc' = "history"
                 /\ UNCHANGED <<raised, handle>>
            ELSE /\ Die("body")
                 /\ handle' = "closed"
    /\ UNCHANGED <<dyn_props, conversion_rate, oldFile, feed, notified>>

\* Line 68: print("CSV file created.")
PrintCreated ==
    /\ pc = "print"
    /\ notified' = notified + 1
    /\ pc' = "done"
    /\ UNCHANGED <<raised, dyn_props, conversion_rate, oldFile, file, handle, feed>>

Next ==
    \/ Connect \/ GetProps \/ ComputeRate \/ MakeAccount \/ OpenCsv
    \/ FeedNext \/ Body \/ PrintCreated

Spec == Init /\ [][Next]_vars

\* The interpreter runs the script's next statement as long as there is one.
FairSpec == Spec /\ WF_vars(Next)

----------------------------------------------------------------------------
\* What the properties below read off a state.

KnownTypes == {"claim_reward_balance", "interest", "fill_convert_request", "fill_order"}
InitSites == {"Hive", "get_dynamic_global_properties", "conversion_rate", "Account", "open"}

\* The operation the loop body is running on (pc = "body").
Current == feed[Len(feed)]

\* The body ran to its end for the current operation, without raising.
BodyCompletes == pc = "body" /\ pc' = "history"

\* Number of operations whose body has run to its end.
Processed == IF pc = "body" \/ raised = "body" THEN Len(feed) - 1 ELSE Len(feed)

\* The number a field's amount string denotes, 0 when the key is missing.
Millis(field) == IF field.kind = "amount" THEN field.int * 1000 + FracMillis(field.frac) ELSE 0

\* The number a numeral cell denotes, in thousandths.
CellValue(cell) == cell.int * 1000 + FracMillis(cell.frac)

\* The operation's timestamp as "YYYY-MM-DD HH:MM:SS".
CellTime(operation) == Text(operation.timestamp.date \o " " \o operation.timestamp.time)

B2N(b) == IF b THEN 1 ELSE 0

\* The rows of the first k operations of the feed, in feed order.
RECURSIVE RowsOfFirst(_)
RowsOfFirst(k) == IF k = 0 THEN <<>> ELSE RowsOfFirst(k - 1) \o LoopBody(feed[k]).written

\* As RowsOfFirst, with the operations of an unrecognized kind left out of the feed.
RECURSIVE RowsOfKnown(_)
RowsOfKnown(k) ==
    IF k = 0 THEN <<>>
    ELSE IF feed[k].type \in KnownTypes THEN RowsOfKnown(k - 1) \o LoopBody(feed[k]).written
    ELSE RowsOfKnown(k - 1)

DataRows == SubSeq(file, 2, Len(file))

----------------------------------------------------------------------------
\* C1 as stated: every operation the feed delivers gets exactly 1 row when it
\* is an interest, fill_convert_request or fill_order operation, and when it
\* is a claim_reward_balance operation as many rows as it has reward amounts
\* (HIVE, HBD, VESTS) greater than zero, whatever else holds.
RawCount(operation) ==
    IF operation.type = "claim_reward_balance"
    THEN B2N(Millis(operation.reward_hive) > 0) + B2N(Millis(operation.reward_hbd) > 0)
         + B2N(Millis(operation.reward_vests) > 0)
    ELSE IF operation.type \in KnownTypes THEN 1 ELSE 0

C1_AsStated ==
    [][pc = "body" => Len(file') = Len(file) + RawCount(Current)]_vars

\* C1, amended: every operation whose body runs without raising gets exactly 1
\* row when it is an interest, fill_convert_request or fill_order operation
\* (also with a zero or missing interest amount); a claim_reward_balance
\* operation gets one row per sub-amount greater than zero, the share-unit
\* sub-amount being the VESTS reward times the run's rate (so it counts only
\* when the rate is positive too); any other kind gets none.
ConvertedCount(operation) ==
    IF operation.type = "claim_reward_balance"
    THEN B2N(Millis(operation.reward_hive) > 0) + B2N(Millis(operation.reward_hbd) > 0)
         + B2N(Millis(operation.reward_vests) * RateOf(dyn_props).rate.n > 0)
    ELSE IF operation.type \in KnownTypes THEN 1 ELSE 0

C1_RowCount ==
    [][BodyCompletes => Len(file') = Len(file) + ConvertedCount(Current)]_vars

\* Reached: a claim_reward_balance operation with three positive sub-amounts
\* has put three rows after the header.
C1_Witness ==
    /\ pc = "history" /\ Len(feed) = 1
    /\ feed[1].type = "claim_reward_balance"
    /\ ConvertedCount(feed[1]) = 3
    /\ Len(file) = 4

----------------------------------------------------------------------------
\* C2: the row of a fill_order operation is (its timestamp, "Trade",
\* current_pays value and symbol, open_pays value and symbol, "", "",
\* "Hive Internal Market", "Trade"); the row of a fill_convert_request
\* operation is (its timestamp, "Transaction", amount_in value and symbol,
\* amount_out value and symbol, "", "", "Hive Internal Market", "Conversion").
IsFillRow(row, operation, type, in, out, note) ==
    /\ Len(row) = 10
    /\ row[1] = CellTime(operation)
    /\ row[2] = Text(type)
    /\ row[3].kind = "numeral" /\ CellValue(row[3]) = Millis(in)
    /\ row[4] = Text(in.sym)
    /\ row[5].kind = "numeral" /\ CellValue(row[5]) = Millis(out)
    /\ row[6] = Text(out.sym)
    /\ row[7] = Empty /\ row[8] = Empty
    /\ row[9] = Text("Hive Internal Market")
    /\ row[10] = Text(note)

C2_FillRows ==
    [][(BodyCompletes /\ Current.type \in {"fill_order", "fill_convert_request"}) =>
          /\ Len(file') = Len(file) + 1
          /\ SubSeq(file', 1, Len(file)) = file
          /\ IF Current.type = "fill_order"
             THEN IsFillRow(file'[Len(file')], Current, "Trade",
                            Current.current_pays, Current.open_pays, "Trade")
             ELSE IsFillRow(file'[Len(file')], Current, "Transaction",
                            Current.amount_in, Current.amount_out, "Conversion")]_vars

\* Reached: a fill_convert_request row followed by a fill_order row.
C2_Witness ==
    /\ pc = "history" /\ Len(file) = 3
    /\ file[2][2] = Text("Transaction")
    /\ file[3][2] = Text("Trade")

----------------------------------------------------------------------------
\* C3 as stated: an operation of an unrecognized kind writes no row and raises
\* nothing; the loop goes on to the next operation.
C3_AsStated ==
    [][(pc = "body" /\ Current.type \notin KnownTypes) =>
          (file' = file /\ pc' = "history" /\ raised' = "none")]_vars

\* C3, amended: an operation of an unrecognized kind whose timestamp is in the
\* "%Y-%m-%dT%H:%M:%S" format writes no row and raises nothing, the loop goes
\* on to the next operation, and the file holds exactly the rows it would
\* hold had the operations of unrecognized kinds not been in the feed.
C3_UnknownSkipped ==
    /\ [][(pc = "body" /\ Current.type \notin KnownTypes /\ Current.timestamp.sep = "T") =>
            (file' = file /\ pc' = "history" /\ raised' = "none" /\ handle' = "open")]_vars
    /\ [](handle # "none" => DataRows = RowsOfKnown(Processed))

\* Reached: a run that skipped a transfer operation, then wrote rows for the
\* next operation and completed.
C3_Witness ==
    /\ pc = "done" /\ Len(feed) = 2
    /\ feed[1].type = "transfer"
    /\ Len(file) > 1

----------------------------------------------------------------------------
\* C4: once the file has been opened its first line is the header and the
\* header occurs exactly once; after an empty feed the file is the header alone.
C4_HeaderOnce ==
    /\ handle # "none" =>
          /\ Len(file) >= 1
          /\ file[1] = Header
          /\ Cardinality({i \in 1..Len(file) : file[i] = Header}) = 1
    /\ (pc \in {"print", "done"} /\ feed = <<>>) => file = <<Header>>

\* Reached: a completed run with data rows, over a file an earlier run left.
C4_Witness ==
    /\ pc = "done" /\ Len(file) >= 3
    /\ oldFile # <<>>

----------------------------------------------------------------------------
\* C5: at every point the data rows of the file are the rows of the operations
\* processed so far, concatenated in feed order; the rows of one
\* claim_reward_balance operation come in the order HIVE, HBD, HP.
Rank(cell) == IF cell = Text("HIVE") THEN 1 ELSE IF cell = Text("HBD") THEN 2 ELSE 3

C5_FeedOrder ==
    handle # "none" =>
       /\ file = <<Header>> \o RowsOfFirst(Processed)
       /\ \A k \in 1..Processed :
             feed[k].type = "claim_reward_balance" =>
                LET rows == LoopBody(feed[k]).written IN
                \A i, j \in 1..Len(rows) : i < j => Rank(rows[i][4]) < Rank(rows[j][4])

\* Reached: two different operations processed, the first with several rows.
C5_Witness ==
    /\ pc = "done" /\ Len(feed) = 2
    /\ feed[1].type = "claim_reward_balance" /\ Len(LoopBody(feed[1]).written) = 3
    /\ feed[2].type = "fill_order" /\ Len(file) = 5

----------------------------------------------------------------------------
\* C6: the rate is bound once, before the first operation is read, to the
\* quotient of the global properties, and no later step changes it; every HP
\* row is the operation's VESTS reward times that one rate.
C6_RateFixed ==
    /\ [](conversion_rate \in {Unbound, RateOf(dyn_props).rate})
    /\ [](feed # <<>> => conversion_rate # Unbound)
    /\ [][conversion_rate # Unbound => conversion_rate' = conversion_rate]_vars
    /\ [][(BodyCompletes /\ Len(file') > Len(file) /\ file'[Len(file')][4] = Text("HP")) =>
            file'[Len(file')][3] =
               Fixed3([n |-> Millis(Current.reward_vests) * RateOf(dyn_props).rate.n,
                       d |-> RateOf(dyn_props).rate.d])]_vars

\* Reached: two HP rows written by two operations of one run.
C6_Witness ==
    /\ Len(feed) = 2 /\ pc = "history"
    /\ \E i, j \in 2..Len(file) : i < j /\ file[i][4] = Text("HP") /\ file[j][4] = Text("HP")

----------------------------------------------------------------------------
\* C7: when a statement before the with block raises (no node, malformed
\* properties, a share supply of zero, ...), the script is dead, the file is
\* as it was before the run, it was never opened, nothing was printed; and
\* malformed properties or a share supply of zero do raise at the division.
C7_InitFailure ==
    /\ raised \in InitSites =>
          /\ pc = "fatal"
          /\ handle = "none"
          /\ file = oldFile
          /\ feed = <<>>
          /\ notified = 0
    /\ (dyn_props # NoProps /\ ~RateOf(dyn_props).ok
          /\ pc \notin {"get_dynamic_global_properties", "conversion_rate"}) =>
          raised = "conversion_rate"

\* Reached: the division failed on a share supply of zero, with a file of an
\* earlier run on disk.
C7_Witness ==
    /\ raised = "conversion_rate"
    /\ Amount(dyn_props.total_vesting_shares).ok
    /\ Amount(dyn_props.total_vesting_shares).amount = 0
    /\ oldFile # <<>>

----------------------------------------------------------------------------
\* C8: when the fetch or the body of the k-th operation raises, the file is
\* the header followed by exactly the rows of operations 1..k-1, in feed order.
C8_Truncated ==
    raised \in {"history", "body"} =>
       /\ pc = "fatal"
       /\ file = <<Header>> \o RowsOfFirst(Processed)
       /\ Processed = (IF raised = "body" THEN Len(feed) - 1 ELSE Len(feed))

\* Reached: the second operation, a claim_reward_balance with a positive HIVE
\* reward and a malformed VESTS reward, raised after the first had written rows.
C8_Witness ==
    /\ raised = "body" /\ Len(feed) = 2
    /\ Len(file) > 1
    /\ feed[2].type = "claim_reward_balance"
    /\ Millis(feed[2].reward_hive) > 0
    /\ feed[2].reward_vests = Junk

----------------------------------------------------------------------------
\* C9: in every terminal state the file object is not open, and is closed
\* when it was ever opened; it is open only from the header write to the end
\* of the with block.
C9_Closed ==
    /\ pc \in {"print", "done", "fatal"} => handle # "open"
    /\ (pc \in {"print", "done"} \/ raised \in {"history", "body"}) => handle = "closed"
    /\ handle = "open" => (pc \in {"history", "body"} /\ Len(file) >= 1 /\ file[1] = Header)
    /\ pc \in {"history", "body"} => handle = "open"

\* Reached: the script died in the loop body and the file is closed.
C9_Witness ==
    /\ pc = "fatal" /\ raised = "body"
    /\ handle = "closed"

----------------------------------------------------------------------------
\* C10: the message is printed at most once; when it has been printed the feed
\* was exhausted without error, the file is closed and complete; a run that
\* died never prints it; a run whose feed is exhausted does print it.
C10_Notified ==
    /\ [](notified <= 1)
    /\ [](notified = 1 =>
            /\ pc = "done" /\ raised = "none" /\ handle = "closed"
            /\ file = <<Header>> \o RowsOfFirst(Len(feed)))
    /\ [](raised # "none" => notified = 0)
    /\ [][notified' # notified => handle = "closed"]_vars
    /\ (pc = "print") ~> (notified = 1)

\* Reached: a completed run that wrote rows and printed the message.
C10_Witness ==
    /\ notified = 1
    /\ Len(file) > 1
====
